---- MODULE Spec2Model ----
(***************************************************************************)
(* A model of scripts/generate_graphs.py: the benchmark line parsers, the  *)
(* aggregator generate_comparisons and the driver main.                    *)
(*                                                                         *)
(* A Python str is a sequence of one-character strings.  A float is an     *)
(* exact rational [n, d] in lowest terms with d > 0.  A line of input is   *)
(* [chars, doc]: its characters and the document json.loads yields for it  *)
(* (NoJSON when json.loads raises JSONDecodeError).                        *)
(***************************************************************************)
EXTENDS Integers, Sequences, FiniteSets, TLC

(***************************************************************************)
(* Characters and character classes                                        *)
(***************************************************************************)

\* The printable ASCII characters in code point order, 32 to 126 (the grave
\* accent, 96, is left out: no line of the model holds it).
Ascii ==
  << " ", "!", "\"", "#", "$", "%", "&", "'", "(", ")", "*", "+", ",", "-",
     ".", "/", "0", "1", "2", "3", "4", "5", "6", "7", "8", "9", ":", ";",
     "<", "=", ">", "?", "@", "A", "B", "C", "D", "E", "F", "G", "H", "I",
     "J", "K", "L", "M", "N", "O", "P", "Q", "R", "S", "T", "U", "V", "W",
     "X", "Y", "Z", "[", "\\", "]", "^", "_", "", "a", "b", "c", "d", "e",
     "f", "g", "h", "i", "j", "k", "l", "m", "n", "o", "p", "q", "r", "s",
     "t", "u", "v", "w", "x", "y", "z", "{", "|", "}", "~" >>

\* ord(c): the code point of a character.
Ord(c) ==
  IF c = "\t" THEN 9
  ELSE IF c = "\n" THEN 10
  ELSE 31 + (CHOOSE i \in 1..Len(Ascii) : Ascii[i] = c)

\* \d of the pattern.
DigitChars == {"0", "1", "2", "3", "4", "5", "6", "7", "8", "9"}

\* \w of the pattern: letters, digits and the underscore.
WordChars ==
  {Ascii[i] : i \in 34..59} \cup {Ascii[i] : i \in 66..91} \cup DigitChars \cup {"_"}

\* \s of the pattern, and what str.strip() removes.
SpaceChars == {" ", "\t", "\n"}

\* [\d.] of the pattern.
NumberChars == DigitChars \cup {"."}

(***************************************************************************)
(* str operations                                                          *)
(***************************************************************************)

\* s.startswith(lit) at position i (1-based).
HasPrefixAt(s, i, lit) ==
  /\ i + Len(lit) - 1 <= Len(s)
  /\ SubSeq(s, i, i + Len(lit) - 1) = lit

\* The first position j >= i with s[j] outside class, Len(s)+1 when none: the
\* end of the longest run a greedy class+ can take from i.
RECURSIVE Span(_, _, _)
Span(s, i, class) ==
  IF i > Len(s) \/ s[i] \notin class THEN i ELSE Span(s, i + 1, class)

\* The last position j <= i with s[j] outside class, 0 when none.
RECURSIVE SpanBack(_, _, _)
SpanBack(s, i, class) ==
  IF i < 1 \/ s[i] \notin class THEN i ELSE SpanBack(s, i - 1, class)

\* s[a..b], empty when a > b.
Slice(s, a, b) == IF a > b THEN << >> ELSE SubSeq(s, a, b)

\* line.strip()
Strip(s) == Slice(s, Span(s, 1, SpaceChars), SpanBack(s, Len(s), SpaceChars))

\* s.split("/"): the list of the segments between the separators.
RECURSIVE SplitFrom(_, _, _)
SplitFrom(s, i, cur) ==
  IF i > Len(s) THEN << cur >>
  ELSE IF s[i] = "/" THEN << cur >> \o SplitFrom(s, i + 1, << >>)
  ELSE SplitFrom(s, i + 1, Append(cur, s[i]))

Split(s) == SplitFrom(s, 1, << >>)

\* The first position at which lit occurs in s from i on, 0 when there is none.
RECURSIVE Find(_, _, _)
Find(s, i, lit) ==
  IF i + Len(lit) - 1 > Len(s) THEN 0
  ELSE IF HasPrefixAt(s, i, lit) THEN i
  ELSE Find(s, i + 1, lit)

\* s without the Len(lit) characters at p; s itself when p = 0.
RemoveAt(s, p, lit) ==
  IF p = 0 THEN s
  ELSE SubSeq(s, 1, p - 1) \o SubSeq(s, p + Len(lit), Len(s))

\* s.replace(lit, "", 1): the first occurrence of lit removed.
ReplaceFirst(s, lit) == RemoveAt(s, Find(s, 1, lit), lit)

\* Python's order on str: by code point, a proper prefix first.
RECURSIVE StrLess(_, _)
StrLess(a, b) ==
  IF b = << >> THEN FALSE
  ELSE IF a = << >> THEN TRUE
  ELSE IF Ord(Head(a)) # Ord(Head(b)) THEN Ord(Head(a)) < Ord(Head(b))
  ELSE StrLess(Tail(a), Tail(b))

(***************************************************************************)
(* Numbers                                                                 *)
(***************************************************************************)

DigitValue(c) == Ord(c) - 48

\* int(s) for a string of digits.
RECURSIVE DigitsToInt(_)
DigitsToInt(s) ==
  IF s = << >> THEN 0
  ELSE 10 * DigitsToInt(SubSeq(s, 1, Len(s) - 1)) + DigitValue(s[Len(s)])

RECURSIVE Gcd(_, _)
Gcd(a, b) == IF b = 0 THEN a ELSE Gcd(b, a % b)

Abs(x) == IF x < 0 THEN -x ELSE x

RECURSIVE Pow10(_)
Pow10(k) == IF k = 0 THEN 1 ELSE 10 * Pow10(k - 1)

\* n/d divided through by g, the denominator made positive.
Reduced(n, d, g) ==
  IF d < 0 THEN [n |-> (0 - n) \div g, d |-> (0 - d) \div g]
  ELSE [n |-> n \div g, d |-> d \div g]

\* The float with value n/d, in lowest terms.
Ratio(n, d) ==
  IF n = 0 THEN [n |-> 0, d |-> 1] ELSE Reduced(n, d, Gcd(Abs(n), Abs(d)))

Zero == Ratio(0, 1)

\* x > 0 on floats.
Positive(x) == x.n > 0

\* Whether float(s) accepts s, a string over [\d.]: at most one point and at
\* least one digit.  It raises ValueError otherwise.
FloatAccepts(s) ==
  /\ Cardinality({i \in 1..Len(s) : s[i] = "."}) <= 1
  /\ \E i \in 1..Len(s) : s[i] \in DigitChars

\* The value of the decimal s whose point is at p (p = 0: no point).
FloatAt(s, p) ==
  IF p = 0 THEN Ratio(DigitsToInt(s), 1)
  ELSE Ratio(DigitsToInt(SubSeq(s, 1, p - 1) \o SubSeq(s, p + 1, Len(s))),
             Pow10(Len(s) - p))

\* float(s) for an accepted s.
ParseFloat(s) == FloatAt(s, Find(s, 1, << "." >>))

(***************************************************************************)
(* Records and lines                                                       *)
(***************************************************************************)

\* class BenchmarkResult
BenchmarkResult(name, operation, hive_size, impl, iterations, ns, bytes, allocs) ==
  [name |-> name, operation |-> operation, hive_size |-> hive_size,
   impl |-> impl, iterations |-> iterations, ns_per_op |-> ns,
   bytes_per_op |-> bytes, allocs_per_op |-> allocs]

NoResult == BenchmarkResult(<< >>, << >>, << >>, << >>, 0, Zero, 0, 0)

\* What a parser call yields: a BenchmarkResult, None, or an exception that
\* leaves the call.
Parsed(r) == [kind |-> "result", rec |-> r, exc |-> ""]
None == [kind |-> "none", rec |-> NoResult, exc |-> ""]
Raise(e) == [kind |-> "raise", rec |-> NoResult, exc |-> e]

\* The literals of the two parsers.
Benchmark == << "B", "e", "n", "c", "h", "m", "a", "r", "k" >>
gohivex == << "g", "o", "h", "i", "v", "e", "x" >>
hivex == << "h", "i", "v", "e", "x" >>
NsOp == << "n", "s", "/", "o", "p" >>
BOp == << "B", "/", "o", "p" >>
AllocsOp == << "a", "l", "l", "o", "c", "s", "/", "o", "p" >>
Slash == << "/" >>

\* A value of a JSON object's key that holds an integer, and one that holds a
\* number; has = FALSE when the object has no such key.
JInt(i) == [has |-> TRUE, i |-> i]
NoInt == [has |-> FALSE, i |-> 0]
JNum(x) == [has |-> TRUE, x |-> x]
NoNum == [has |-> FALSE, x |-> Zero]

\* The value of the key Name: a string, a value that is no string (a number,
\* null, a list, ...), or no such key.
JStr(s) == [t |-> "str", s |-> s]
NotStr == [t |-> "other", s |-> << >>]
NoName == [t |-> "absent", s |-> << >>]

EmptyDoc == [Name |-> NoName, N |-> NoInt, T |-> NoNum, B |-> NoInt, A |-> NoInt]

\* A line whose text json.loads decodes to the object doc.  Its text starts
\* with a brace and ends with one; the text between them is what doc holds.
JsonLine(doc) == [chars |-> << "{", "}", "\n" >>, decodes |-> TRUE, doc |-> doc]

\* A line of plain text: json.loads raises JSONDecodeError on it.
TextLine(chars) == [chars |-> chars, decodes |-> FALSE, doc |-> EmptyDoc]

(***************************************************************************)
(* parse_json_benchmark                                                    *)
(***************************************************************************)

\* data.get(key, default) for the numeric keys.
GetInt(v, default) == IF v.has THEN v.i ELSE default
GetNum(v, default) == IF v.has THEN v.x ELSE default

\* The variant segment of a structured name: parts[3] when there is one.
JsonVariant(parts) == IF Len(parts) >= 4 THEN parts[4] ELSE << >>

\* The display name both parsers build.
DisplayName(operation, variant) ==
  IF variant # << >> THEN operation \o Slash \o variant ELSE operation

\* The result built from the parts of a name that is a str.
FromParts(line, name, parts) ==
  IF Len(parts) < 2 THEN None
  ELSE Parsed(BenchmarkResult(
         name,
         DisplayName(ReplaceFirst(parts[1], Benchmark), JsonVariant(parts)),
         IF Len(parts) >= 3 THEN parts[3] ELSE << >>,
         parts[2],
         GetInt(line.doc.N, 0), GetNum(line.doc.T, Zero),
         GetInt(line.doc.B, 0), GetInt(line.doc.A, 0)))

\* data.get('Name', '')
GetName(v) == IF v.t = "str" THEN v.s ELSE << >>

parse_json_benchmark(line) ==
  IF ~line.decodes THEN None                      \* json.JSONDecodeError
  ELSE IF line.doc.Name.t = "other"
  THEN Raise("AttributeError")                    \* name.split on a non-str
  ELSE FromParts(line, GetName(line.doc.Name), Split(GetName(line.doc.Name)))

(***************************************************************************)
(* parse_text_benchmark: the pattern                                       *)
(*                                                                         *)
(* A position is an index into the line, 0 for "no match from here".       *)
(***************************************************************************)

\* A literal at p: the position after it.
Lit(s, p, lit) == IF p # 0 /\ HasPrefixAt(s, p, lit) THEN p + Len(lit) ELSE 0

\* The run from p ends at q: it matches when it is not empty.
NonEmpty(p, q) == IF q > p THEN q ELSE 0

\* class+ at p, greedy: the position after the longest run.  Every class+ of
\* the pattern is followed by a character outside its class, so no shorter
\* run can match.
Plus(s, p, class) == IF p = 0 THEN 0 ELSE NonEmpty(p, Span(s, p, class))

NoField(p) == [digits |-> << >>, end |-> p]

\* (?:\s+(\d+)\s+unit)? at p: the group is taken when it matches (greedy) and
\* skipped otherwise.  a, b: the ends of \s+ and of (\d+); end: of the unit.
FieldTaken(s, p, a, b, end) ==
  IF end # 0 THEN [digits |-> SubSeq(s, a, b - 1), end |-> end] ELSE NoField(p)

FieldUnit(s, p, a, b, unit) ==
  FieldTaken(s, p, a, b, Lit(s, Plus(s, b, SpaceChars), unit))

FieldDigits(s, p, a, unit) == FieldUnit(s, p, a, Plus(s, a, DigitChars), unit)

OptionalField(s, p, unit) == FieldDigits(s, p, Plus(s, p, SpaceChars), unit)

NoMatch == [ok |-> FALSE, iterations |-> << >>, ns_per_op |-> << >>,
            bytes_per_op |-> << >>, allocs_per_op |-> << >>]

\* -\d+\s+(\d+)\s+([\d.]+)\s+ns/op(?:\s+(\d+)\s+B/op)?(?:\s+(\d+)\s+allocs/op)?
\* at p.  r, t: the start and end of the iterations; u, v: of the number;
\* x: the position after ns/op; fb: the B/op group.
WithAllocs(s, r, t, u, v, fb, fa) ==
  [ok |-> TRUE, iterations |-> SubSeq(s, r, t - 1),
   ns_per_op |-> SubSeq(s, u, v - 1),
   bytes_per_op |-> fb.digits, allocs_per_op |-> fa.digits]

WithBytes(s, r, t, u, v, fb) ==
  WithAllocs(s, r, t, u, v, fb, OptionalField(s, fb.end, AllocsOp))

AfterUnit(s, r, t, u, v, x) ==
  IF x = 0 THEN NoMatch ELSE WithBytes(s, r, t, u, v, OptionalField(s, x, BOp))

AfterNumber(s, r, t, u, v) ==
  AfterUnit(s, r, t, u, v, Lit(s, Plus(s, v, SpaceChars), NsOp))

AfterBlank(s, r, t, u) == AfterNumber(s, r, t, u, Plus(s, u, NumberChars))

AfterIterations(s, r, t) == AfterBlank(s, r, t, Plus(s, t, SpaceChars))

AfterProcs(s, r) == AfterIterations(s, r, Plus(s, r, DigitChars))

MatchMeasures(s, p) ==
  AfterProcs(s, Plus(s, Plus(s, Lit(s, p, << "-" >>), DigitChars), SpaceChars))

\* (.+?) whose first character is s[e - 1]: the least e such that the rest
\* of the pattern matches at e (the variant ends before e); 0 when there is
\* none.  The dot matches any character but a line break.
RECURSIVE VariantEnd(_, _)
VariantEnd(s, e) ==
  IF e > Len(s) \/ s[e - 1] = "\n" THEN 0
  ELSE IF MatchMeasures(s, e).ok THEN e
  ELSE VariantEnd(s, e + 1)

NoGroups == [ok |-> FALSE, operation |-> << >>, impl |-> << >>,
             hive_size |-> << >>, variant |-> << >>, rest |-> NoMatch]

Groups(operation, impl, hive_size, variant, rest) ==
  IF rest.ok
  THEN [ok |-> TRUE, operation |-> operation, impl |-> impl,
        hive_size |-> hive_size, variant |-> variant, rest |-> rest]
  ELSE NoGroups

\* (?:/(.+?))? after the size, which ends before m: e is the end of the
\* variant, 0 when the group is skipped.
MatchVariant(s, operation, impl, hive_size, m, e) ==
  Groups(operation, impl, hive_size,
         IF e > 0 THEN SubSeq(s, m + 1, e - 1) ELSE << >>,
         MatchMeasures(s, IF e > 0 THEN e ELSE m))

\* (\w+) from k to before m: the size.
MatchSize(s, operation, impl, k, m) ==
  IF m = 0 THEN NoGroups
  ELSE MatchVariant(s, operation, impl, SubSeq(s, k, m - 1), m,
                    IF HasPrefixAt(s, m, Slash) THEN VariantEnd(s, m + 2) ELSE 0)

\* (gohivex|hivex) at p, then the separator at k - 1.
MatchImpl(s, operation, impl, k) ==
  IF k = 0 THEN NoGroups
  ELSE MatchSize(s, operation, impl, k, Plus(s, k, WordChars))

\* (gohivex|hivex) at p: the alternative that matches, empty when none does.
ImplAt(s, p) ==
  IF HasPrefixAt(s, p, gohivex) THEN gohivex
  ELSE IF HasPrefixAt(s, p, hivex) THEN hivex
  ELSE << >>

AfterOperation(s, operation, p, impl) ==
  MatchImpl(s, operation, impl,
            IF impl # << >> THEN Lit(s, p + Len(impl), Slash) ELSE 0)

\* (\w+) from i to before j, then the separator: the operation.
MatchOperation(s, i, j) ==
  IF Lit(s, j, Slash) = 0 THEN NoGroups
  ELSE AfterOperation(s, SubSeq(s, i, j - 1), j + 1, ImplAt(s, j + 1))

\* The groups of re.match(pattern, line), or no match.
MatchPattern(s) ==
  MatchOperation(s, Len(Benchmark) + 1,
                 Plus(s, Lit(s, 1, Benchmark), WordChars))

(***************************************************************************)
(* parse_text_benchmark                                                    *)
(***************************************************************************)

\* int(x) if x else 0
IntOrZero(digits) == IF digits # << >> THEN DigitsToInt(digits) ELSE 0

\* The statements after the match, on its groups g.
FromGroups(g) ==
  IF ~g.ok THEN None
  ELSE IF ~FloatAccepts(g.rest.ns_per_op)
  THEN Raise("ValueError")                        \* float(ns_per_op)
  ELSE Parsed(BenchmarkResult(
         Benchmark \o g.operation \o Slash \o g.impl \o Slash
           \o g.hive_size \o Slash \o g.variant,
         DisplayName(g.operation, g.variant), g.hive_size, g.impl,
         DigitsToInt(g.rest.iterations), ParseFloat(g.rest.ns_per_op),
         IntOrZero(g.rest.bytes_per_op), IntOrZero(g.rest.allocs_per_op)))

parse_text_benchmark(line) == FromGroups(MatchPattern(line.chars))

(***************************************************************************)
(* parse_benchmarks                                                        *)
(***************************************************************************)

\* if result: append, continue; else the text format.
OrText(line, viaJson) ==
  IF viaJson.kind # "none" THEN viaJson ELSE parse_text_benchmark(line)

\* The loop body on a stripped line.
ParseStripped(line) ==
  IF line.chars = << >> THEN None
  ELSE OrText(line, IF HasPrefixAt(line.chars, 1, << "{" >>)
                    THEN parse_json_benchmark(line) ELSE None)

\* One pass of the loop body on a raw line: the outcome for that line.
ParseLine(raw) == ParseStripped([raw EXCEPT !.chars = Strip(raw.chars)])

Returned(results) == [kind |-> "return", results |-> results, exc |-> ""]
Raised(exc) == [kind |-> "raise", results |-> << >>, exc |-> exc]

\* parse_benchmarks(lines): the list of results, or the first exception a
\* line's parse lets out (it ends the loop).  r: the outcome of line i.
RECURSIVE ParseFrom(_, _, _)
RECURSIVE ParseStep(_, _, _, _)
ParseStep(lines, i, results, r) ==
  IF r.kind = "raise" THEN Raised(r.exc)
  ELSE ParseFrom(lines, i + 1,
                 IF r.kind = "result" THEN Append(results, r.rec) ELSE results)

ParseFrom(lines, i, results) ==
  IF i > Len(lines) THEN Returned(results)
  ELSE ParseStep(lines, i, results, ParseLine(lines[i]))

parse_benchmarks(lines) == ParseFrom(lines, 1, << >>)

(***************************************************************************)
(* generate_comparisons                                                    *)
(***************************************************************************)

\* class ComparisonResult, as __init__ leaves it.
ComparisonResult(operation, hive_size) ==
  [operation |-> operation, hive_size |-> hive_size,
   gohivex_ns |-> Zero, hivex_ns |-> Zero, speedup |-> Zero,
   gohivex_mem |-> 0, hivex_mem |-> 0,
   gohivex_allocs |-> 0, hivex_allocs |-> 0, gohivex_only |-> FALSE]

\* MUTATION_OPERATIONS
MUTATION_OPERATIONS ==
  { << "N", "o", "d", "e", "A", "d", "d", "C", "h", "i", "l", "d" >>,
    << "N", "o", "d", "e", "S", "e", "t", "V", "a", "l", "u", "e" >>,
    << "N", "o", "d", "e", "S", "e", "t", "V", "a", "l", "u", "e", "s" >>,
    << "N", "o", "d", "e", "D", "e", "l", "e", "t", "e", "C", "h", "i", "l", "d" >>,
    << "C", "o", "m", "m", "i", "t" >>,
    << "I", "n", "t", "r", "o", "s", "p", "e", "c", "t", "i", "o", "n", "R", "e", "c", "u", "r", "s", "i", "v", "e" >> }

\* OperationBase without the split: the whole display name, variant and all.
OperationWhole(operation) == operation

\* result.operation.split("/")[0]
OperationBase(operation) == Split(operation)[1]

IsMutation(result) == OperationBase(result.operation) \in MUTATION_OPERATIONS

\* Whether the filter keeps a result: neither continue is taken.
Kept(result, filter_type) ==
  /\ ~(filter_type = "standard" /\ IsMutation(result))
  /\ ~(filter_type = "mutation" /\ ~IsMutation(result))

\* groups[key].append(result) on a defaultdict(list): groups is the list of
\* its (key, list) items in insertion order.
AppendToGroup(groups, key, result) ==
  IF \E i \in 1..Len(groups) : groups[i].key = key
  THEN [i \in 1..Len(groups) |->
          IF groups[i].key = key
          THEN [groups[i] EXCEPT !.group = Append(@, result)]
          ELSE groups[i]]
  ELSE Append(groups, [key |-> key, group |-> << result >>])

\* The grouping loop from results[i] on.
RECURSIVE GroupFrom(_, _, _, _)
GroupFrom(results, i, filter_type, groups) ==
  IF i > Len(results) THEN groups
  ELSE GroupFrom(results, i + 1, filter_type,
         IF Kept(results[i], filter_type)
         THEN AppendToGroup(groups,
                << results[i].operation, results[i].hive_size >>, results[i])
         ELSE groups)

\* Pick with the loop stopped at the first result of the implementation.
RECURSIVE PickFirstFrom(_, _, _)
PickFirstFrom(group, i, impl) ==
  IF i > Len(group) THEN [has |-> FALSE, rec |-> NoResult]
  ELSE IF group[i].impl = impl THEN [has |-> TRUE, rec |-> group[i]]
  ELSE PickFirstFrom(group, i + 1, impl)

PickFirst(group, impl) == PickFirstFrom(group, 1, impl)

\* The loop over a group that leaves in a variable the last result of the
\* implementation impl: [has, rec], has = FALSE for None.
RECURSIVE PickFrom(_, _, _, _)
PickFrom(group, i, impl, found) ==
  IF i > Len(group) THEN found
  ELSE PickFrom(group, i + 1, impl,
         IF group[i].impl = impl THEN [has |-> TRUE, rec |-> group[i]]
         ELSE found)

Pick(group, impl) == PickFrom(group, 1, impl, [has |-> FALSE, rec |-> NoResult])

\* GohivexOnly without its first conjunct: not hivex.
NotHivex(has_gohivex, has_hivex) == ~has_hivex

\* gohivex and not hivex
GohivexOnly(has_gohivex, has_hivex) == has_gohivex /\ ~has_hivex

\* Speedup with the quotient the other way up: gohivex_ns / hivex_ns.
SpeedupInverted(gohivex_ns, hivex_ns) ==
  IF Positive(gohivex_ns) /\ Positive(hivex_ns)
  THEN Ratio(gohivex_ns.n * hivex_ns.d, gohivex_ns.d * hivex_ns.n)
  ELSE Zero

\* comp.speedup after the last if: the quotient when both times are
\* positive, else the 0.0 of __init__.
Speedup(gohivex_ns, hivex_ns) ==
  IF Positive(gohivex_ns) /\ Positive(hivex_ns)
  THEN Ratio(hivex_ns.n * gohivex_ns.d, hivex_ns.d * gohivex_ns.n)
  ELSE Zero

\* if gohivex: the three copies.
WithGohivex(comp, g) ==
  IF g.has
  THEN [comp EXCEPT !.gohivex_ns = g.rec.ns_per_op,
                    !.gohivex_mem = g.rec.bytes_per_op,
                    !.gohivex_allocs = g.rec.allocs_per_op]
  ELSE comp

\* if hivex: the three copies.
WithHivex(comp, h) ==
  IF h.has
  THEN [comp EXCEPT !.hivex_ns = h.rec.ns_per_op,
                    !.hivex_mem = h.rec.bytes_per_op,
                    !.hivex_allocs = h.rec.allocs_per_op]
  ELSE comp

WithOnly(comp, g, h) == [comp EXCEPT !.gohivex_only = GohivexOnly(g.has, h.has)]

WithSpeedup(comp) ==
  [comp EXCEPT !.speedup = Speedup(comp.gohivex_ns, comp.hivex_ns)]

\* The statements after the loop over the group, on what it found.
Fill(comp, g, h) == WithSpeedup(WithOnly(WithHivex(WithGohivex(comp, g), h), g, h))

\* The body of the loop over groups.items(): the comparison of one group.
Compare(key, group) ==
  Fill(ComparisonResult(key[1], key[2]), Pick(group, gohivex), Pick(group, hivex))

\* SortKeyLess with the key c.operation alone.
OperationLess(a, b) == StrLess(a.operation, b.operation)

\* (a.operation, a.hive_size) < (b.operation, b.hive_size) on tuples of str.
SortKeyLess(a, b) ==
  \/ StrLess(a.operation, b.operation)
  \/ a.operation = b.operation /\ StrLess(a.hive_size, b.hive_size)

\* list.sort(key=...): a stable sort, here by insertion: c goes after every
\* element whose key is not greater than its own.
RECURSIVE InsertSorted(_, _)
InsertSorted(sorted, c) ==
  IF sorted = << >> THEN << c >>
  ELSE IF SortKeyLess(c, Head(sorted)) THEN << c >> \o sorted
  ELSE << Head(sorted) >> \o InsertSorted(Tail(sorted), c)

RECURSIVE SortFrom(_, _, _)
SortFrom(comparisons, i, sorted) ==
  IF i > Len(comparisons) THEN sorted
  ELSE SortFrom(comparisons, i + 1, InsertSorted(sorted, comparisons[i]))

Sort(comparisons) == SortFrom(comparisons, 1, << >>)

\* The loop over groups.items().
CompareAll(groups) ==
  [i \in 1..Len(groups) |-> Compare(groups[i].key, groups[i].group)]

generate_comparisons(results, filter_type) ==
  Sort(CompareAll(GroupFrom(results, 1, filter_type, << >>)))

(***************************************************************************)
(* The rendered files                                                      *)
(***************************************************************************)

\* The two files one generate_<metric>_graph call saves, in the order it saves
\* them: <timestamp>_<prefix><metric>.png under the output directory, then
\* <prefix><metric>.png under the documentation directory.
GraphFiles(metric, prefix) ==
  << [dir |-> "output", stamped |-> TRUE, prefix |-> prefix, metric |-> metric],
     [dir |-> "docs", stamped |-> FALSE, prefix |-> prefix, metric |-> metric] >>

generate_time_graph(prefix) == GraphFiles("time", prefix)
generate_memory_graph(prefix) == GraphFiles("memory", prefix)
generate_allocations_graph(prefix) == GraphFiles("allocations", prefix)

\* The files one try block of main saves, in order.
CategoryFiles(prefix) ==
  generate_time_graph(prefix) \o generate_memory_graph(prefix)
    \o generate_allocations_graph(prefix)

(***************************************************************************)
(* The input lines                                                         *)
(***************************************************************************)

\* The longest input, in lines.
MaxLines == 3

\* The most segments a benchmark name has after its implementation tag.
MaxSegments == 3

DigitChar(k) == Ascii[k + 17]

\* The decimal digits of a natural number.
RECURSIVE IntToDigits(_)
IntToDigits(k) ==
  IF k < 10 THEN << DigitChar(k) >>
  ELSE IntToDigits(k \div 10) \o << DigitChar(k % 10) >>

RECURSIVE JoinSegments(_)
JoinSegments(segs) ==
  IF segs = << >> THEN << >>
  ELSE Slash \o Head(segs) \o JoinSegments(Tail(segs))

\* Benchmark<Operation>/<impl>/<size>/<variant>...
BenchmarkName(d) == Benchmark \o d.op \o Slash \o d.impl \o JoinSegments(d.segs)

\* The structured line of a measurement d: an object with the keys Name, N,
\* T and, when d has them, B and A.
StructuredLine(d) ==
  JsonLine([Name |-> JStr(BenchmarkName(d)), N |-> JInt(d.N),
            T |-> JNum(ParseFloat(d.T)), B |-> d.B, A |-> d.A])

\* <digits> <unit> of a textual line, with the blank before it.
TextField(v, unit) ==
  IF v.has THEN << " " >> \o IntToDigits(v.i) \o << " " >> \o unit ELSE << >>

\* The textual line of a measurement d:
\* <name>-8  <N>  <T> ns/op  <B> B/op  <A> allocs/op
TextualLine(d) ==
  TextLine(BenchmarkName(d) \o << "-", "8", " ", " " >> \o IntToDigits(d.N)
           \o << " ", " " >> \o d.T \o << " " >> \o NsOp
           \o TextField(d.B, BOp) \o TextField(d.A, AllocsOp) \o << "\n" >>)

Measurement(op, impl, segs, N, T, B, A) ==
  [op |-> op, impl |-> impl, segs |-> segs, N |-> N, T |-> T, B |-> B, A |-> A]

Get == << "G", "e", "t" >>
Commit == << "C", "o", "m", "m", "i", "t" >>
cgo == << "c", "g", "o" >>
SizeS == << "s" >>
SizeM == << "m" >>
VariantV == << "v" >>

\* Lines that are no benchmark line: test output, a blank line, a brace line
\* that is no JSON, an object without Name, an object whose Name is no
\* string, and a textual line whose number has two points.
NoiseLine == TextLine(<< "P", "A", "S", "S", "\n" >>)
BlankLine == TextLine(<< " ", "\n" >>)
BrokenJsonLine == TextLine(<< "{", "b", "a", "d", "\n" >>)
NamelessLine == JsonLine(EmptyDoc)
NonStringNameLine == JsonLine([EmptyDoc EXCEPT !.Name = NotStr])
TwoPointsLine ==
  TextualLine(Measurement(Get, gohivex, << SizeS >>, 10, << "1", ".", "2", ".", "3" >>, NoInt, NoInt))

\* The measurements whose two lines the parsers are run on.
ParseMeasurements ==
  { Measurement(op, impl, segs, m.N, m.T, m.B, m.A) :
      op \in {Get, Commit}, impl \in {gohivex, hivex, cgo},
      segs \in UNION {[1..k -> {SizeS, VariantV}] : k \in 0..MaxSegments},
      m \in { [N |-> 10, T |-> << "1", ".", "5" >>, B |-> JInt(4), A |-> JInt(2)],
              [N |-> 25, T |-> << "3" >>, B |-> NoInt, A |-> NoInt] } }

\* The inputs parse_benchmarks is run on alone: every line alone, and for every
\* measurement its structured line followed by its textual line.
ParseInputs ==
  { << l >> : l \in {StructuredLine(d) : d \in ParseMeasurements}
                    \cup {TextualLine(d) : d \in ParseMeasurements}
                    \cup {NoiseLine, BlankLine, BrokenJsonLine, NamelessLine,
                          NonStringNameLine, TwoPointsLine} }
  \cup { << StructuredLine(d), TextualLine(d) >> : d \in ParseMeasurements }

\* The lines the inputs of the two aggregations are made of.
AggLines ==
  { TextualLine(Measurement(Get, gohivex, << SizeS >>, 10, << "1", ".", "5" >>, JInt(4), JInt(2))),
    TextualLine(Measurement(Get, hivex, << SizeS >>, 20, << "3" >>, JInt(8), JInt(1))),
    TextualLine(Measurement(Get, gohivex, << SizeS >>, 30, << "0", ".", "5" >>, JInt(16), JInt(3))),
    TextualLine(Measurement(Get, gohivex, << SizeM >>, 10, << "1", ".", "5" >>, JInt(4), JInt(2))),
    StructuredLine(Measurement(Commit, gohivex, << SizeS, VariantV >>, 10, << "1", ".", "5" >>, JInt(4), JInt(2))),
    TextualLine(Measurement(Commit, hivex, << SizeS, VariantV >>, 20, << "3" >>, JInt(8), NoInt)),
    TextualLine(Measurement(Commit, hivex, << SizeS >>, 20, << "3" >>, NoInt, NoInt)),
    StructuredLine(Measurement(Get, cgo, << SizeS >>, 10, << "1", ".", "5" >>, JInt(4), JInt(2))),
    StructuredLine(Measurement(Get, hivex, << SizeS >>, 5, << "0", ".", "0" >>, JInt(32), JInt(5))),
    StructuredLine(Measurement(Get, hivex, << >>, 20, << "3" >>, JInt(8), JInt(1))),
    NoiseLine,
    NonStringNameLine }

\* The lines the inputs of main are made of.
DriverLines ==
  { TextualLine(Measurement(Get, gohivex, << SizeS >>, 10, << "1", ".", "5" >>, JInt(4), JInt(2))),
    StructuredLine(Measurement(Commit, hivex, << SizeS >>, 20, << "3" >>, JInt(8), JInt(1))),
    NoiseLine,
    NonStringNameLine }

\* The lists of at most MaxLines lines over a set of lines.
Inputs(domain) == UNION {[1..k -> domain] : k \in 0..MaxLines}

(***************************************************************************)
(* main                                                                    *)
(***************************************************************************)

VARIABLES
  pc,                     \* the statement of main that runs next
  lines,                  \* lines
  results,                \* results
  standard_comparisons,   \* standard_comparisons
  mutation_comparisons,   \* mutation_comparisons
  dirs,                   \* the directories main has created
  files,                  \* the image files saved
  exit_code,              \* the exit status of the process, -1 while it runs
  failure                 \* the step whose exception ended the process, or "none"

vars == << pc, lines, results, standard_comparisons, mutation_comparisons,
           dirs, files, exit_code, failure >>

\* sys.exit(1), or an exception no handler of main catches: the interpreter
\* prints the traceback and ends with status 1.
ExitWith(code, step) ==
  /\ pc' = "exit"
  /\ exit_code' = code
  /\ failure' = step

Running(at) ==
  /\ pc = at
  /\ exit_code = -1

Init ==
  /\ pc = "read"
  /\ lines = << >>
  /\ results = << >>
  /\ standard_comparisons = << >>
  /\ mutation_comparisons = << >>
  /\ dirs = {}
  /\ files = {}
  /\ exit_code = -1
  /\ failure = "none"

\* open(args.input) raises IOError: the message goes to stderr, sys.exit(1).
OpenFails ==
  /\ Running("read")
  /\ ExitWith(1, "open")
  /\ UNCHANGED << lines, results, standard_comparisons, mutation_comparisons,
                  dirs, files >>

\* f.readlines() or sys.stdin.readlines()
ReadLines ==
  /\ Running("read")
  /\ lines' \in Inputs(DriverLines)
  /\ pc' = "parse"
  /\ UNCHANGED << results, standard_comparisons, mutation_comparisons, dirs,
                  files, exit_code, failure >>

\* parse_benchmarks returns: its list is bound to results.
ParseReturns(out) ==
  /\ out.kind = "return"
  /\ results' = out.results

\* results = parse_benchmarks(lines)
ParseBenchmarks ==
  /\ Running("parse")
  /\ ParseReturns(parse_benchmarks(lines))
  /\ pc' = "standard"
  /\ UNCHANGED << lines, standard_comparisons, mutation_comparisons, dirs,
                  files, exit_code, failure >>

\* parse_benchmarks(lines) lets an exception out: main has no handler round
\* the call.
ParseRaises ==
  /\ Running("parse")
  /\ parse_benchmarks(lines).kind = "raise"
  /\ ExitWith(1, "parse")
  /\ UNCHANGED << lines, results, standard_comparisons, mutation_comparisons,
                  dirs, files >>

\* standard_comparisons = generate_comparisons(results, filter_type='standard')
GenerateStandard ==
  /\ Running("standard")
  /\ standard_comparisons' = generate_comparisons(results, "standard")
  /\ pc' = "mutation"
  /\ UNCHANGED << lines, results, mutation_comparisons, dirs, files,
                  exit_code, failure >>

\* mutation_comparisons = generate_comparisons(results, filter_type='mutation')
GenerateMutation ==
  /\ Running("mutation")
  /\ mutation_comparisons' = generate_comparisons(results, "mutation")
  /\ pc' = "mkdir"
  /\ UNCHANGED << lines, results, standard_comparisons, dirs, files,
                  exit_code, failure >>

\* output_dir.mkdir(...); docs_dir.mkdir(...)
MakeDirs ==
  /\ Running("mkdir")
  /\ dirs' = {"output", "docs"}
  /\ pc' = "render_standard"
  /\ UNCHANGED << lines, results, standard_comparisons, mutation_comparisons,
                  files, exit_code, failure >>

\* One of the two mkdir calls raises OSError, which main does not catch: the
\* first, or the second after the first has made its directory.
MakeDirsFails ==
  /\ Running("mkdir")
  /\ dirs' \in {{}, {"output"}}
  /\ ExitWith(1, "mkdir")
  /\ UNCHANGED << lines, results, standard_comparisons, mutation_comparisons,
                  files >>

\* A try block of main whose three generate calls all return, or whose list
\* is empty: every file of the category is saved, or none.
RenderAll(comparisons, prefix) ==
  files' = IF comparisons # << >>
           THEN files \cup {CategoryFiles(prefix)[i] :
                              i \in 1..Len(CategoryFiles(prefix))}
           ELSE files

\* A try block of main in which saving the file k+1 raises: the k files
\* before it are saved, the handler prints the error and calls sys.exit(1).
RenderSome(comparisons, prefix) ==
  /\ comparisons # << >>
  /\ \E k \in 0..(Len(CategoryFiles(prefix)) - 1) :
       files' = files \cup {CategoryFiles(prefix)[i] : i \in 1..k}

RenderStandard ==
  /\ Running("render_standard")
  /\ RenderAll(standard_comparisons, "")
  /\ pc' = "render_mutation"
  /\ UNCHANGED << lines, results, standard_comparisons, mutation_comparisons,
                  dirs, exit_code, failure >>

RenderStandardFails ==
  /\ Running("render_standard")
  /\ RenderSome(standard_comparisons, "")
  /\ ExitWith(1, "render_standard")
  /\ UNCHANGED << lines, results, standard_comparisons, mutation_comparisons,
                  dirs >>

\* The second try block; main returns after it and the process ends with 0.
RenderMutation ==
  /\ Running("render_mutation")
  /\ RenderAll(mutation_comparisons, "mutation_")
  /\ ExitWith(0, "none")
  /\ UNCHANGED << lines, results, standard_comparisons, mutation_comparisons,
                  dirs >>

RenderMutationFails ==
  /\ Running("render_mutation")
  /\ RenderSome(mutation_comparisons, "mutation_")
  /\ ExitWith(1, "render_mutation")
  /\ UNCHANGED << lines, results, standard_comparisons, mutation_comparisons,
                  dirs >>

Next ==
  \/ OpenFails
  \/ ReadLines
  \/ ParseBenchmarks
  \/ ParseRaises
  \/ GenerateStandard
  \/ GenerateMutation
  \/ MakeDirs
  \/ MakeDirsFails
  \/ RenderStandard
  \/ RenderStandardFails
  \/ RenderMutation
  \/ RenderMutationFails

\* main, from its start.
Spec == Init /\ [][Next]_vars

\* main after the input has been read, up to the two aggregations.
InitRead(inputs) ==
  /\ pc = "parse"
  /\ lines \in inputs
  /\ results = << >>
  /\ standard_comparisons = << >>
  /\ mutation_comparisons = << >>
  /\ dirs = {}
  /\ files = {}
  /\ exit_code = -1
  /\ failure = "none"

InitAgg == InitRead(Inputs(AggLines))

NextAgg ==
  \/ ParseBenchmarks
  \/ ParseRaises
  \/ GenerateStandard
  \/ GenerateMutation

SpecAgg == InitAgg /\ [][NextAgg]_vars

\* parse_benchmarks alone, on ParseInputs.
InitParse == InitRead(ParseInputs)

NextParse ==
  \/ ParseBenchmarks
  \/ ParseRaises

SpecParse == InitParse /\ [][NextParse]_vars

(***************************************************************************)
(* What the properties are stated with                                     *)
(***************************************************************************)

KnownImplementations == {gohivex, hivex}

\* The two aggregations have run / the first has.
StandardDone == pc \notin {"read", "parse", "standard"} /\ failure \notin {"open", "parse"}
Aggregated == StandardDone /\ pc # "mutation"

\* The comparison lists that have been computed, as one set of
\* [category, list] pairs.
ComputedLists ==
  (IF StandardDone
   THEN {[category |-> "standard", list |-> standard_comparisons]} ELSE {})
  \cup
  (IF Aggregated
   THEN {[category |-> "mutation", list |-> mutation_comparisons]} ELSE {})

KeyOf(x) == << x.operation, x.hive_size >>

KeysOf(list) == {KeyOf(list[i]) : i \in 1..Len(list)}

\* An operation name truncated before its first separator.
BaseName(operation) ==
  IF Find(operation, 1, Slash) = 0 THEN operation
  ELSE SubSeq(operation, 1, Find(operation, 1, Slash) - 1)

\* The category of a record by the fixed set of mutation operations.
CategoryOf(record) ==
  IF BaseName(record.operation) \in MUTATION_OPERATIONS
  THEN "mutation" ELSE "standard"

\* The positions in results of the records of a key and an implementation.
Matching(key, impl) ==
  {i \in 1..Len(results) : KeyOf(results[i]) = key /\ results[i].impl = impl}

HasData(key, impl) == Matching(key, impl) # {}

\* The last record in input order of a key and an implementation.
LastRecord(key, impl) ==
  results[CHOOSE i \in Matching(key, impl) : \A j \in Matching(key, impl) : j <= i]

\* (a, b) < (c, d) on pairs of str.
KeyBefore(k1, k2) ==
  \/ StrLess(k1[1], k2[1])
  \/ k1[1] = k2[1] /\ StrLess(k1[2], k2[2])

\* No line of the input parses to a record.
NoParseableLine == \A i \in 1..Len(lines) : ParseLine(lines[i]).kind # "result"

FilesOf(prefix) == {f \in files : f.prefix = prefix}

(***************************************************************************)
(* C1                                                                      *)
(***************************************************************************)

\* C1: parsing a line yields a record or "no match" and never raises:
\* parse_benchmarks over any list of lines returns a list, so the process
\* never ends in the parse step.
C1_ParseNeverRaises == failure # "parse"

(***************************************************************************)
(* C2                                                                      *)
(***************************************************************************)

\* C2: every record parse_benchmarks returns has one of the two known
\* implementation tags, and every comparison carries data from at least one
\* of the two implementations.
C2_KnownImplementationOnly ==
  /\ \A i \in 1..Len(results) : results[i].impl \in KnownImplementations
  /\ \A cl \in ComputedLists : \A i \in 1..Len(cl.list) :
       \E impl \in KnownImplementations : HasData(KeyOf(cl.list[i]), impl)

(***************************************************************************)
(* C3                                                                      *)
(***************************************************************************)

SameMeasurement(a, b) ==
  /\ a.operation = b.operation
  /\ a.hive_size = b.hive_size
  /\ a.iterations = b.iterations
  /\ a.ns_per_op = b.ns_per_op
  /\ a.bytes_per_op = b.bytes_per_op
  /\ a.allocs_per_op = b.allocs_per_op

\* C3: when the structured line and the textual line of one measurement both
\* parse, the two records agree on operation, size, iterations, ns/op, B/op
\* and allocs/op, names with a variant or with more than four segments
\* included.
C3_BothEncodingsAgree ==
  \A d \in ParseMeasurements :
    (/\ lines = << StructuredLine(d), TextualLine(d) >>
     /\ pc = "standard"
     /\ Len(results) = 2)
    => SameMeasurement(results[1], results[2])

(***************************************************************************)
(* C4                                                                      *)
(***************************************************************************)

\* C4: once both aggregations have run, the key of every record is in the
\* mutation list iff the record's base operation name is one of the six
\* mutation operations and in the standard list iff it is not; no key is in
\* both lists, and the lists hold no key that no record has.
C4_PartitionExhaustiveExclusive ==
  Aggregated =>
    /\ \A i \in 1..Len(results) :
         /\ KeyOf(results[i]) \in KeysOf(mutation_comparisons)
              <=> CategoryOf(results[i]) = "mutation"
         /\ KeyOf(results[i]) \in KeysOf(standard_comparisons)
              <=> CategoryOf(results[i]) = "standard"
    /\ KeysOf(standard_comparisons) \cap KeysOf(mutation_comparisons) = {}
    /\ KeysOf(standard_comparisons) \cup KeysOf(mutation_comparisons)
         \subseteq KeysOf(results)

\* Both lists hold a comparison, one of them of a mutation operation with a
\* variant suffix.
C4_Witness ==
  /\ Aggregated
  /\ standard_comparisons # << >>
  /\ \E i \in 1..Len(mutation_comparisons) :
       BaseName(mutation_comparisons[i].operation)
         # mutation_comparisons[i].operation

(***************************************************************************)
(* C5                                                                      *)
(***************************************************************************)

\* C5: in every comparison, speedup is hivex_ns / gohivex_ns when both times
\* are strictly positive and zero otherwise, so also zero when the group has
\* no record of one of the two implementations.
C5_SpeedupRatio ==
  \A cl \in ComputedLists : \A i \in 1..Len(cl.list) :
    LET c == cl.list[i]
    IN  /\ IF c.gohivex_ns.n > 0 /\ c.hivex_ns.n > 0
           THEN /\ c.speedup.d > 0
                /\ c.speedup.n * c.gohivex_ns.n * c.hivex_ns.d
                     = c.speedup.d * c.hivex_ns.n * c.gohivex_ns.d
           ELSE c.speedup = Zero
        /\ (\E impl \in KnownImplementations : ~HasData(KeyOf(c), impl))
             => c.speedup = Zero

\* One comparison has a ratio other than 0 and 1, and another has a zero
\* ratio although hivex reports a positive time.
C5_Witness ==
  /\ Aggregated
  /\ \E i, j \in 1..Len(standard_comparisons) :
       /\ standard_comparisons[i].speedup \notin {Zero, Ratio(1, 1)}
       /\ standard_comparisons[j].speedup = Zero
       /\ standard_comparisons[j].hivex_ns.n > 0

(***************************************************************************)
(* C6                                                                      *)
(***************************************************************************)

\* C6: in every comparison, gohivex_only is true iff the group has a record
\* of gohivex and none of hivex.
C6_GohivexOnlyIff ==
  \A cl \in ComputedLists : \A i \in 1..Len(cl.list) :
    cl.list[i].gohivex_only
      <=> (HasData(KeyOf(cl.list[i]), gohivex) /\ ~HasData(KeyOf(cl.list[i]), hivex))

\* One comparison has gohivex data only (the flag set), another has hivex
\* data only (the flag clear).
C6_Witness ==
  /\ Aggregated
  /\ \E i, j \in 1..Len(standard_comparisons) :
       /\ standard_comparisons[i].gohivex_only
       /\ ~standard_comparisons[j].gohivex_only
       /\ HasData(KeyOf(standard_comparisons[j]), hivex)
       /\ ~HasData(KeyOf(standard_comparisons[j]), gohivex)

(***************************************************************************)
(* C7                                                                      *)
(***************************************************************************)

\* C7: each computed list holds exactly one comparison per distinct
\* (operation, size) key of the records of its category, ordered by
\* operation name and then size, ascending.
C7_OnePerKeySorted ==
  \A cl \in ComputedLists :
    /\ KeysOf(cl.list)
         = {KeyOf(results[i]) :
              i \in {j \in 1..Len(results) : CategoryOf(results[j]) = cl.category}}
    /\ Cardinality(KeysOf(cl.list)) = Len(cl.list)
    /\ \A i, j \in 1..Len(cl.list) :
         i < j => KeyBefore(KeyOf(cl.list[i]), KeyOf(cl.list[j]))

\* The standard list holds two comparisons of one operation whose records
\* came in the other order in the input.
C7_Witness ==
  /\ Aggregated
  /\ \E i, j \in 1..Len(results) :
       /\ i < j
       /\ CategoryOf(results[i]) = "standard"
       /\ results[i].operation = results[j].operation
       /\ StrLess(results[j].hive_size, results[i].hive_size)

(***************************************************************************)
(* C8                                                                      *)
(***************************************************************************)

\* C8: a run in which no rendering step fails (and the input was read and
\* the directories made) ends with exactly six image files of each category
\* whose comparison list is not empty and none of a category whose list is
\* empty; with no parseable line in the input it ends with no file and exit
\* code 0.
C8_SixFilesPerCategory ==
  (pc = "exit" /\ failure \notin {"open", "mkdir", "render_standard", "render_mutation"})
  =>
    /\ Cardinality(FilesOf("")) = IF standard_comparisons # << >> THEN 6 ELSE 0
    /\ Cardinality(FilesOf("mutation_"))
         = IF mutation_comparisons # << >> THEN 6 ELSE 0
    /\ NoParseableLine => (files = {} /\ exit_code = 0)

(***************************************************************************)
(* C9                                                                      *)
(***************************************************************************)

\* C9: the process exits with code 1 if the input file cannot be opened or a
\* chart-generation step raises, and with code 0 in every other run (a run
\* in which a directory cannot be made set aside); when the input cannot be
\* opened no directory and no image exists, and when the mutation rendering
\* fails the standard images are all there.
C9_ExitCodes ==
  (pc = "exit" /\ failure # "mkdir")
  =>
    /\ exit_code = IF failure \in {"open", "render_standard", "render_mutation"}
                   THEN 1 ELSE 0
    /\ failure = "open" => (dirs = {} /\ files = {})
    /\ (failure = "render_mutation" /\ standard_comparisons # << >>)
         => Cardinality(FilesOf("")) = 6

(***************************************************************************)
(* C10                                                                     *)
(***************************************************************************)

ValuesOf(record) ==
  << record.ns_per_op, record.bytes_per_op, record.allocs_per_op >>

\* C10: in every comparison the time, memory and allocation values of each
\* implementation are those of the last record in input order of that key
\* and implementation, and zero when there is none; records that repeat a
\* key and an implementation add no second comparison of the key.
C10_LastRecordWins ==
  \A cl \in ComputedLists :
    /\ \A i \in 1..Len(cl.list) :
         LET c == cl.list[i]
         IN  /\ << c.gohivex_ns, c.gohivex_mem, c.gohivex_allocs >>
                  = IF HasData(KeyOf(c), gohivex)
                    THEN ValuesOf(LastRecord(KeyOf(c), gohivex))
                    ELSE << Zero, 0, 0 >>
             /\ << c.hivex_ns, c.hivex_mem, c.hivex_allocs >>
                  = IF HasData(KeyOf(c), hivex)
                    THEN ValuesOf(LastRecord(KeyOf(c), hivex))
                    ELSE << Zero, 0, 0 >>
    /\ \A i, j \in 1..Len(cl.list) :
         KeyOf(cl.list[i]) = KeyOf(cl.list[j]) => i = j

\* The input held two records of one key and implementation with different
\* values, and the comparison of the key has been built.
C10_Witness ==
  /\ Aggregated
  /\ \E i, j \in 1..Len(results) :
       /\ i < j
       /\ KeyOf(results[i]) = KeyOf(results[j])
       /\ results[i].impl = results[j].impl
       /\ results[i].impl \in KnownImplementations
       /\ ValuesOf(results[i]) # ValuesOf(results[j])
       /\ KeyOf(results[i]) \in KeysOf(standard_comparisons)

====
